---- MODULE Spec2Model ----
(***************************************************************************)
(* Model of tv_time_to_trakt.py: csv_to_json (the format converter) and    *)
(* add_imdb_ids_to_movies (the identifier resolver and output writer).     *)
(*                                                                         *)
(* Text that the program inspects character by character (type-uuid-n,     *)
(* created_at, the lines of the CSV file) is a sequence of one-character   *)
(* strings.  Text that is only compared or copied (entity_type, uuid,      *)
(* movie_name, identifiers) is a string.  A response body is a sequence of *)
(* the fragments the two regular expressions can see.                      *)
(***************************************************************************)
EXTENDS Integers, Sequences, FiniteSets, TLC

VARIABLES
    \* ---- add_imdb_ids_to_movies ----
    data,               \* json.load(input_file): the list of entries
    i,                  \* position of the for-loop: index of the current entry
    pc,                 \* position inside add_imdb_ids_to_movies
    imdb_id,            \* local imdb_id of the current iteration
    tvtime_failed,      \* local tvtime_failed of the current iteration
    watched_movies,     \* list of {"id", "watched_at"}
    missing_imdb_ids,   \* list of {"movie_name", "uuid"}
    fallback_obtained,  \* list of {"movie_name", "imdb_id", "uuid"}
    pbar,               \* number of pbar.update(1) calls
    stdout,             \* the sections printed after the loop, in order
    output_file,        \* what has been written to output_file: one document per write
    requests,           \* history: every requests.get issued, with its outcome
    origin,             \* history: for each list, the entry index behind each element
    \* ---- csv_to_json ----
    csv_exists,         \* whether csv_file_path names an existing file
    csv_file,           \* the lines of the CSV file
    cpc,                \* position inside csv_to_json
    data_list,          \* local data_list
    json_file,          \* what has been written to json_file_path: one document per write
    exit_code           \* the statuses passed to sys.exit, <<>> when not called

resolver_vars == <<data, i, pc, imdb_id, tvtime_failed, watched_movies,
                   missing_imdb_ids, fallback_obtained, pbar, stdout,
                   output_file, requests, origin>>
csv_vars == <<csv_exists, csv_file, cpc, data_list, json_file, exit_code>>
vars == <<data, i, pc, imdb_id, tvtime_failed, watched_movies,
          missing_imdb_ids, fallback_obtained, pbar, stdout,
          output_file, requests, origin,
          csv_exists, csv_file, cpc, data_list, json_file, exit_code>>

\* Python's None where a string is expected.
None == "None"

(***************************************************************************)
(* Bounds of the model.                                                    *)
(***************************************************************************)
MaxRecords == 2     \* entries in the input list
MaxRows == 2        \* lines after the header line of the CSV file
MaxLineLen == 3     \* characters in a line after the header line

(***************************************************************************)
(* Character helpers.                                                      *)
(***************************************************************************)
DigitSeq == <<"0", "1", "2", "3", "4", "5", "6", "7", "8", "9">>
Digits == {DigitSeq[n] : n \in 1..10}
DigitVal(c) == (CHOOSE n \in 1..10 : DigitSeq[n] = c) - 1
DigitChar(n) == DigitSeq[n + 1]
Whitespace == {" ", "\t"}

(***************************************************************************)
(* str.startswith (line 153).                                              *)
(***************************************************************************)
\* Variant: the prefix anywhere in s ("watch-" in s).
startswith_in(s, prefix) ==
    \E k \in 0..Len(s) :
        /\ k + Len(prefix) <= Len(s)
        /\ SubSeq(s, k + 1, k + Len(prefix)) = prefix

startswith(s, prefix) ==
    /\ Len(s) >= Len(prefix)
    /\ \A k \in 1..Len(prefix) : s[k] = prefix[k]

WatchPrefix == <<"w", "a", "t", "c", "h", "-">>

(***************************************************************************)
(* Response bodies.  A body is a sequence of fragments:                    *)
(*   esc   \"imdb_id\":\"tt<digits>\"   (first alternative of line 59)     *)
(*   plain imdb_id":"tt<digits>"        (second alternative of line 59)    *)
(*   path  /title/tt<digits>/           (line 79)                          *)
(*   text  anything neither pattern matches                                *)
(* re.search returns the leftmost match, that is the first fragment of a   *)
(* kind the pattern accepts.                                               *)
(***************************************************************************)
Frag(kind, id) == [kind |-> kind, id |-> id]

RECURSIVE re_search(_, _, _)
\* Index of the first fragment of `text` at or after `from` whose kind is in
\* `kinds`; 0 when there is none (no match).
re_search(kinds, text, from) ==
    IF from > Len(text) THEN 0
    ELSE IF text[from].kind \in kinds THEN from
    ELSE re_search(kinds, text, from + 1)

RECURSIVE re_search_last(_, _, _)
re_search_last(kinds, text, from) ==
    IF from > Len(text) THEN 0
    ELSE LET later == re_search_last(kinds, text, from + 1)
         IN  IF later # 0 THEN later
             ELSE IF text[from].kind \in kinds THEN from ELSE 0

\* Variant: the plain pattern is searched before the escaped one.
get_first_imdb_id_plain_first(page_source) ==
    LET plain == re_search({"plain"}, page_source, 1)
        esc == re_search({"esc"}, page_source, 1)
    IN  IF plain # 0 THEN page_source[plain].id
        ELSE IF esc # 0 THEN page_source[esc].id
        ELSE None

\* get_first_imdb_id (lines 53-64).
get_first_imdb_id(page_source) ==
    LET match == re_search({"esc", "plain"}, page_source, 1)
        group1 == IF match # 0 /\ page_source[match].kind = "esc"
                  THEN page_source[match].id ELSE None
        group2 == IF match # 0 /\ page_source[match].kind = "plain"
                  THEN page_source[match].id ELSE None
    IN  IF match # 0
        THEN (IF group1 # None THEN group1 ELSE group2)
        ELSE None

\* A response of requests.get: either an exception (error # None) or a
\* status code with a body.
Response(error, status_code, text) ==
    [error |-> error, status_code |-> status_code, text |-> text]

\* Variant: the last match instead of the first.
get_imdb_id_by_search_last_match(response) ==
    IF response.error # None THEN None
    ELSE IF response.status_code = 200
    THEN LET match == re_search_last({"path"}, response.text, 1)
         IN  IF match # 0 THEN response.text[match].id ELSE None
    ELSE None

\* get_imdb_id_by_search (lines 75-101): the value returned for the outcome
\* `response` of the request of line 76.
get_imdb_id_by_search(response) ==
    IF response.error # None THEN None              \* lines 97-101
    ELSE IF response.status_code = 200              \* line 77
    THEN LET match == re_search({"path"}, response.text, 1)
         IN  IF match # 0 THEN response.text[match].id ELSE None
    ELSE None                                       \* lines 91-96

\* The value of imdb_id after lines 162-176 for the outcome `response` of
\* the request of line 165.
primary_result(response) ==
    IF response.error # None THEN None              \* lines 173-176
    ELSE IF response.status_code = 200              \* line 166
    THEN get_first_imdb_id(response.text)
    ELSE None                                       \* lines 168-172

\* Python truthiness of a string-or-None (lines 180, 183).
truthy(x) == x # None /\ x # ""

(***************************************************************************)
(* datetime.strptime(created_at_str, '%Y-%m-%d %H:%M:%S') and              *)
(* dt.strftime('%Y-%m-%dT%H:%M:%SZ') (lines 109-110).                      *)
(*                                                                         *)
(* strptime compiles the format to the regular expression                  *)
(*   (\d\d\d\d)-(1[0-2]|0[1-9]|[1-9])-(3[01]|[12]\d|0[1-9]|[1-9]| [1-9])   *)
(*   \s+(2[0-3]|[0-1]\d|\d):([0-5]\d|\d):(6[0-1]|[0-5]\d|\d)               *)
(* which must consume the whole string, and then builds a datetime, which  *)
(* rejects year 0, a day the month does not have, and seconds above 59.    *)
(* Either failure is a ValueError.                                         *)
(***************************************************************************)
\* s[p], or the empty string past the end of s.
Char(s, p) == IF p \in 1..Len(s) THEN s[p] ELSE ""

RECURSIVE DigitRun(_, _, _)
\* How many of the characters of s from position p on are digits, counting
\* at most max.
DigitRun(s, p, max) ==
    IF max = 0 \/ Char(s, p) \notin Digits THEN 0
    ELSE 1 + DigitRun(s, p + 1, max - 1)

RECURSIVE WhitespaceRun(_, _)
WhitespaceRun(s, p) ==
    IF Char(s, p) \notin Whitespace THEN 0 ELSE 1 + WhitespaceRun(s, p + 1)

RECURSIVE Number(_, _, _)
\* The value of the w digits of s that start at position p.
Number(s, p, w) ==
    IF w = 0 THEN 0
    ELSE 10 * Number(s, p, w - 1) + DigitVal(s[p + w - 1])

\* The matcher is a set of partial matches, each the position of the next
\* character and the values of the groups matched so far; a step of the
\* regular expression maps the set to the set of its continuations.
Start(s) == {[at |-> 1, v |-> <<>>]}

\* \d\d\d\d
YearGroup(s, states) ==
    {[at |-> t.at + 4, v |-> Append(t.v, Number(s, t.at, 4))] :
        t \in {u \in states : DigitRun(s, u.at, 4) = 4}}

\* A group of one or two digits with a value in lo..hi: the alternatives of
\* the regular expression take two digits when the two are in range, and
\* what must follow the group rules out a third digit.
NumberGroup(s, states, lo, hi) ==
    {[at |-> t.at + DigitRun(s, t.at, 3),
      v |-> Append(t.v, Number(s, t.at, DigitRun(s, t.at, 3)))] :
        t \in {u \in states :
                /\ DigitRun(s, u.at, 3) \in 1..2
                /\ Number(s, u.at, DigitRun(s, u.at, 3)) \in lo..hi}}

\* The day group: 1..31, or a space and one non-zero digit.
DayGroup(s, states) ==
    NumberGroup(s, states, 1, 31)
    \cup {[at |-> t.at + 2, v |-> Append(t.v, Number(s, t.at + 1, 1))] :
            t \in {u \in states :
                    /\ Char(s, u.at) = " "
                    /\ DigitRun(s, u.at + 1, 1) = 1
                    /\ Number(s, u.at + 1, 1) \in 1..9}}

Literal(s, states, c) ==
    {[t EXCEPT !.at = @ + 1] : t \in {u \in states : Char(s, u.at) = c}}

\* \s+
Spaces(s, states) ==
    {[t EXCEPT !.at = @ + WhitespaceRun(s, t.at)] :
        t \in {u \in states : WhitespaceRun(s, u.at) >= 1}}

\* The match must consume the whole string.
AtEnd(s, states) == {t \in states : t.at = Len(s) + 1}

DateMatch(s) ==
    DayGroup(s, Literal(s, NumberGroup(s, Literal(s, YearGroup(s, Start(s)),
                                                   "-"), 1, 12), "-"))
TimeMatch(s, states) ==
    NumberGroup(s, Literal(s, NumberGroup(s, Literal(s,
        NumberGroup(s, states, 0, 23), ":"), 0, 59), ":"), 0, 61)

\* The values <<year, month, day, hour, minute, second>> of the matches of
\* the whole regular expression against s: one or none.
Matches(s) == {t.v : t \in AtEnd(s, TimeMatch(s, Spaces(s, DateMatch(s))))}

IsLeap(y) == (y % 4 = 0 /\ y % 100 # 0) \/ y % 400 = 0

DaysInMonth(y, m) ==
    IF m = 2 THEN (IF IsLeap(y) THEN 29 ELSE 28)
    ELSE IF m \in {4, 6, 9, 11} THEN 30 ELSE 31

\* The checks of the datetime constructor on <<year, ..., second>>.
ValidDatetime(v) ==
    /\ v[1] >= 1
    /\ v[3] <= DaysInMonth(v[1], v[2])
    /\ v[6] <= 59

(***************************************************************************)
(* The entries of the input list of add_imdb_ids_to_movies.                *)
(***************************************************************************)
T_padded == <<"2", "0", "2", "0", "-", "0", "9", "-", "2", "1", " ",
              "0", "2", ":", "1", "7", ":", "2", "0">>
T_unpadded == <<"2", "0", "2", "0", "-", "9", "-", "2", "1", " ",
                "2", ":", "1", "7", ":", "2", "0">>
T_iso == <<"2", "0", "2", "0", "-", "0", "9", "-", "2", "1", "T",
           "0", "2", ":", "1", "7", ":", "2", "0", "Z">>
S_watch == <<"w", "a", "t", "c", "h", "-", "7", "-", "1">>
S_towatch == <<"t", "o", "w", "a", "t", "c", "h", "-", "7", "-", "1">>
S_watch_nodash == <<"w", "a", "t", "c", "h">>

Entry(entity_type, uuid, movie_name, type_uuid_n, created_at) ==
    [k \in {"entity_type", "uuid", "movie_name", "type-uuid-n", "created_at"} |->
        CASE k = "entity_type" -> <<entity_type>>
          [] k = "uuid" -> <<uuid>>
          [] k = "movie_name" -> <<movie_name>>
          [] k = "type-uuid-n" -> type_uuid_n
          [] k = "created_at" -> created_at]

\* An entry without the keys in `missing`.
Without(entry, missing) == [k \in DOMAIN entry \ missing |-> entry[k]]

\* The entries an input list is drawn from.  Values of entity_type, uuid and
\* movie_name are strings wrapped in a one-element sequence, so that every
\* value of an entry is a sequence.
Entries ==
    { Entry("movie", "u1", "Alien", S_watch, T_padded),
      Entry("movie", "u2", "Brazil", S_watch, T_unpadded),
      Without(Entry("movie", "u1", "", S_watch, T_iso), {"movie_name"}),
      Entry("episode", "u3", "Cube", S_watch, T_padded),
      Entry("movie", "u3", "Cube", S_towatch, T_iso),
      Without(Entry("Movie", "", "Alien", S_watch_nodash, T_padded), {"uuid"}),
      Without(Entry("movie", "u2", "Brazil", <<>>, <<>>),
              {"type-uuid-n", "created_at"}) }

\* dict.get (lines 137-141).
get(entry, key, default) == IF key \in DOMAIN entry THEN entry[key] ELSE default

(***************************************************************************)
(* Line 109 on the created_at values of the entries: for each, the set of  *)
(* the datetime strptime returns, empty where it raises ValueError.        *)
(***************************************************************************)
CreatedAtValues == {get(e, "created_at", <<>>) : e \in Entries}
strptime == [s \in CreatedAtValues |-> {v \in Matches(s) : ValidDatetime(v)}]

\* Variant: only the zero-padded 19-character form is accepted.
strptime_padded_only(s) ==
    /\ Len(s) = 19
    /\ strptime[s] # {}

\* TRUE when strptime returns, FALSE when it raises ValueError.
strptime_ok(s) == strptime[s] # {}

\* The datetime strptime returns, where strptime_ok(s).
Parsed(s) == CHOOSE v \in strptime[s] : TRUE

Pad2(n) == <<DigitChar(n \div 10), DigitChar(n % 10)>>
Pad4(n) == <<DigitChar(n \div 1000), DigitChar((n \div 100) % 10)>> \o Pad2(n % 100)

strftime(dt) ==
    Pad4(dt[1]) \o <<"-">> \o Pad2(dt[2]) \o <<"-">> \o Pad2(dt[3])
    \o <<"T">> \o Pad2(dt[4]) \o <<":">> \o Pad2(dt[5]) \o <<":">>
    \o Pad2(dt[6]) \o <<"Z">>

\* convert_created_at_to_watched_at (lines 104-110), where strptime_ok.
convert_created_at_to_watched_at(created_at_str) ==
    strftime(Parsed(created_at_str))

(***************************************************************************)
(* The responses to the requests of add_imdb_ids_to_movies.                *)
(***************************************************************************)
\* The outcomes of a requests.get: an exception (Timeout, ConnectionError
\* and the like are all caught as requests.RequestException, lines 97 and
\* 173), a 404 whose body would match, and three bodies under status 200.
Body_path == <<Frag("text", None), Frag("path", "tt3"), Frag("path", "tt4")>>
Body_id == <<Frag("esc", "tt1"), Frag("plain", "tt2")>>
Body_mixed == <<Frag("path", "tt4"), Frag("plain", "tt2"), Frag("esc", "tt1"),
                Frag("path", "tt3")>>
Responses ==
    {Response("RequestException", 0, <<>>), Response(None, 404, Body_mixed)}
    \cup {Response(None, 200, b) : b \in {Body_path, Body_id, Body_mixed}}

RECURSIVE SeqsUpTo(_, _)
\* The sequences over S of length at most n.
SeqsUpTo(S, n) ==
    IF n = 0 THEN {<<>>}
    ELSE LET shorter == SeqsUpTo(S, n - 1)
         IN  shorter \cup {Append(q, x) : q \in {r \in shorter : Len(r) = n - 1}, x \in S}

\* The values lines 137-141 read from the current entry.
entry == data[i]
entity_type == get(entry, "entity_type", <<"">>)[1]
uuid == get(entry, "uuid", <<"">>)[1]
movie_name == get(entry, "movie_name", <<"(no title)">>)[1]
type_uuid_n == get(entry, "type-uuid-n", <<>>)
created_at == get(entry, "created_at", <<>>)

NoOrigin == [watched |-> <<>>, missing |-> <<>>, fallback |-> <<>>]

\* The state after lines 119-128, with csv_to_json not in play.
Init ==
    /\ data \in SeqsUpTo(Entries, MaxRecords)
    /\ i = 1
    /\ pc = "loop"
    /\ imdb_id = None
    /\ tvtime_failed = FALSE
    /\ watched_movies = <<>>
    /\ missing_imdb_ids = <<>>
    /\ fallback_obtained = <<>>
    /\ pbar = 0
    /\ stdout = <<>>
    /\ output_file = <<>>
    /\ requests = <<>>
    /\ origin = NoOrigin
    /\ csv_exists = FALSE
    /\ csv_file = <<>>
    /\ cpc = "idle"
    /\ data_list = <<>>
    /\ json_file = <<>>
    /\ exit_code = <<>>

\* Lines 144-150: an entry that is not a movie is skipped.
SkipNonMovie ==
    /\ pc = "loop" /\ i <= Len(data)
    /\ entity_type # "movie"
    /\ pbar' = pbar + 1
    /\ i' = i + 1
    /\ UNCHANGED <<data, pc, imdb_id, tvtime_failed, watched_movies,
                   missing_imdb_ids, fallback_obtained, stdout, output_file,
                   requests, origin>>
    /\ UNCHANGED csv_vars

\* Lines 153-159: a movie whose type-uuid-n does not start with "watch-" is
\* skipped.
SkipUnwatched ==
    /\ pc = "loop" /\ i <= Len(data)
    /\ entity_type = "movie"
    /\ ~startswith(type_uuid_n, WatchPrefix)
    /\ pbar' = pbar + 1
    /\ i' = i + 1
    /\ UNCHANGED <<data, pc, imdb_id, tvtime_failed, watched_movies,
                   missing_imdb_ids, fallback_obtained, stdout, output_file,
                   requests, origin>>
    /\ UNCHANGED csv_vars

Request(stage, template, arg, response) ==
    [stage |-> stage, entry |-> i, template |-> template, arg |-> arg,
     response |-> response]

\* Variant: a request that raised is tried a second time.
PrimaryRequest_retry ==
    /\ pc = "loop" /\ i <= Len(data)
    /\ entity_type = "movie"
    /\ startswith(type_uuid_n, WatchPrefix)
    /\ \E response \in Responses :
        /\ requests' = Append(requests,
                              Request("primary", "tvtime.com/movie/", uuid, response))
        /\ imdb_id' = primary_result(response)
        /\ tvtime_failed' = (imdb_id' = None)
        /\ pc' = IF response.error # None
                    /\ \A j \in 1..Len(requests) : requests[j].entry # i
                 THEN "loop"
                 ELSE IF ~truthy(imdb_id') THEN "fallback" ELSE "record"
    /\ UNCHANGED <<data, i, watched_movies, missing_imdb_ids, fallback_obtained,
                   pbar, stdout, output_file, origin>>
    /\ UNCHANGED csv_vars

\* Variant: the exception of the request is not caught.
PrimaryRequest_uncaught ==
    /\ pc = "loop" /\ i <= Len(data)
    /\ entity_type = "movie"
    /\ startswith(type_uuid_n, WatchPrefix)
    /\ \E response \in Responses :
        /\ requests' = Append(requests,
                              Request("primary", "tvtime.com/movie/", uuid, response))
        /\ imdb_id' = primary_result(response)
        /\ tvtime_failed' = (imdb_id' = None)
        /\ pc' = IF response.error # None THEN "aborted"
                 ELSE IF ~truthy(imdb_id') THEN "fallback" ELSE "record"
    /\ UNCHANGED <<data, i, watched_movies, missing_imdb_ids, fallback_obtained,
                   pbar, stdout, output_file, origin>>
    /\ UNCHANGED csv_vars

\* Lines 161-180: the entry passed both filters; the page of the movie is
\* requested once, and whatever the outcome the iteration goes on.
PrimaryRequest ==
    /\ pc = "loop" /\ i <= Len(data)
    /\ entity_type = "movie"
    /\ startswith(type_uuid_n, WatchPrefix)
    /\ \E response \in Responses :
        /\ requests' = Append(requests,
                              Request("primary", "tvtime.com/movie/", uuid, response))
        /\ imdb_id' = primary_result(response)
        /\ tvtime_failed' = (imdb_id' = None)
        /\ pc' = IF ~truthy(imdb_id') THEN "fallback" ELSE "record"
    /\ UNCHANGED <<data, i, watched_movies, missing_imdb_ids, fallback_obtained,
                   pbar, stdout, output_file, origin>>
    /\ UNCHANGED csv_vars

\* Line 181 with lines 67-101: the search by movie name, requested once.
FallbackRequest ==
    /\ pc = "fallback"
    /\ \E response \in Responses :
        /\ requests' = Append(requests,
                              Request("fallback", "imdb.com/find?q=", movie_name, response))
        /\ imdb_id' = get_imdb_id_by_search(response)
    /\ pc' = "record"
    /\ UNCHANGED <<data, i, tvtime_failed, watched_movies, missing_imdb_ids,
                   fallback_obtained, pbar, stdout, output_file, origin>>
    /\ UNCHANGED csv_vars

\* Lines 185-190: the bookkeeping of an identifier obtained by the fallback.
fallback_obtained_next ==
    IF tvtime_failed
    THEN Append(fallback_obtained,
                [movie_name |-> movie_name, imdb_id |-> imdb_id, uuid |-> uuid])
    ELSE fallback_obtained

origin_fallback_next ==
    IF tvtime_failed THEN Append(origin.fallback, i) ELSE origin.fallback

\* Variant: the new record is put at the head of the output list.
RecordResolved_prepend ==
    /\ pc = "record"
    /\ truthy(imdb_id)
    /\ strptime_ok(created_at)
    /\ fallback_obtained' = fallback_obtained_next
    /\ watched_movies' =
            <<[id |-> imdb_id,
               watched_at |-> convert_created_at_to_watched_at(created_at)]>>
            \o watched_movies
    /\ origin' = [origin EXCEPT !.fallback = origin_fallback_next,
                                !.watched = <<i>> \o origin.watched]
    /\ pbar' = pbar + 1
    /\ i' = i + 1
    /\ pc' = "loop"
    /\ UNCHANGED <<data, imdb_id, tvtime_failed, missing_imdb_ids, stdout,
                   output_file, requests>>
    /\ UNCHANGED csv_vars

\* Variant: the output file is saved after every resolved record.
RecordResolved_saves ==
    /\ pc = "record"
    /\ truthy(imdb_id)
    /\ strptime_ok(created_at)
    /\ fallback_obtained' = fallback_obtained_next
    /\ watched_movies' = Append(watched_movies,
            [id |-> imdb_id,
             watched_at |-> convert_created_at_to_watched_at(created_at)])
    /\ output_file' = Append(output_file, watched_movies')
    /\ origin' = [origin EXCEPT !.fallback = origin_fallback_next,
                                !.watched = Append(origin.watched, i)]
    /\ pbar' = pbar + 1
    /\ i' = i + 1
    /\ pc' = "loop"
    /\ UNCHANGED <<data, imdb_id, tvtime_failed, missing_imdb_ids, stdout, requests>>
    /\ UNCHANGED csv_vars

\* Lines 183-199 and 210, where strptime returns: the entry is resolved.
RecordResolved ==
    /\ pc = "record"
    /\ truthy(imdb_id)
    /\ strptime_ok(created_at)
    /\ fallback_obtained' = fallback_obtained_next
    /\ watched_movies' = Append(watched_movies,
            [id |-> imdb_id,
             watched_at |-> convert_created_at_to_watched_at(created_at)])
    /\ origin' = [origin EXCEPT !.fallback = origin_fallback_next,
                                !.watched = Append(origin.watched, i)]
    /\ pbar' = pbar + 1
    /\ i' = i + 1
    /\ pc' = "loop"
    /\ UNCHANGED <<data, imdb_id, tvtime_failed, missing_imdb_ids, stdout,
                   output_file, requests>>
    /\ UNCHANGED csv_vars

\* Lines 183-192, where strptime raises ValueError: nothing catches it, in
\* add_imdb_ids_to_movies or in main, and the process ends with a traceback.
RecordTimestampError ==
    /\ pc = "record"
    /\ truthy(imdb_id)
    /\ ~strptime_ok(created_at)
    /\ fallback_obtained' = fallback_obtained_next
    /\ origin' = [origin EXCEPT !.fallback = origin_fallback_next]
    /\ pc' = "aborted"
    /\ UNCHANGED <<data, i, imdb_id, tvtime_failed, watched_movies,
                   missing_imdb_ids, pbar, stdout, output_file, requests>>
    /\ UNCHANGED csv_vars

\* Variant: the entry without identifier is reported but not listed.
RecordMissing_unlisted ==
    /\ pc = "record"
    /\ ~truthy(imdb_id)
    /\ pbar' = pbar + 1
    /\ i' = i + 1
    /\ pc' = "loop"
    /\ UNCHANGED <<data, imdb_id, tvtime_failed, watched_movies, missing_imdb_ids,
                   fallback_obtained, stdout, output_file, requests, origin>>
    /\ UNCHANGED csv_vars

\* Lines 200-210: no identifier, the entry is listed as missing.
RecordMissing ==
    /\ pc = "record"
    /\ ~truthy(imdb_id)
    /\ missing_imdb_ids' = Append(missing_imdb_ids,
                                  [movie_name |-> movie_name, uuid |-> uuid])
    /\ origin' = [origin EXCEPT !.missing = Append(origin.missing, i)]
    /\ pbar' = pbar + 1
    /\ i' = i + 1
    /\ pc' = "loop"
    /\ UNCHANGED <<data, imdb_id, tvtime_failed, watched_movies,
                   fallback_obtained, stdout, output_file, requests>>
    /\ UNCHANGED csv_vars

\* Lines 212-228: after the loop, the two diagnostics lists are printed,
\* each only when it is not empty.
Report ==
    /\ pc = "loop" /\ i > Len(data)
    /\ stdout' = stdout
            \o (IF missing_imdb_ids # <<>>
                THEN <<[section |-> "missing", items |-> missing_imdb_ids]>>
                ELSE <<>>)
            \o (IF fallback_obtained # <<>>
                THEN <<[section |-> "fallback", items |-> fallback_obtained]>>
                ELSE <<>>)
    /\ pc' = "write"
    /\ UNCHANGED <<data, i, imdb_id, tvtime_failed, watched_movies,
                   missing_imdb_ids, fallback_obtained, pbar, output_file,
                   requests, origin>>
    /\ UNCHANGED csv_vars

\* Lines 230-234: the output file is written, then the count is printed.
WriteOutput ==
    /\ pc = "write"
    /\ output_file' = Append(output_file, watched_movies)
    /\ stdout' = Append(stdout, [section |-> "added", items |-> <<Len(watched_movies)>>])
    /\ pc' = "done"
    /\ UNCHANGED <<data, i, imdb_id, tvtime_failed, watched_movies,
                   missing_imdb_ids, fallback_obtained, pbar, requests, origin>>
    /\ UNCHANGED csv_vars

\* add_imdb_ids_to_movies (lines 113-234), one step.
Next ==
    \/ SkipNonMovie
    \/ SkipUnwatched
    \/ PrimaryRequest
    \/ FallbackRequest
    \/ RecordResolved
    \/ RecordTimestampError
    \/ RecordMissing
    \/ Report
    \/ WriteOutput

Spec == Init /\ [][Next]_vars

(***************************************************************************)
(* csv_to_json (lines 25-50).                                              *)
(*                                                                         *)
(* The file is a sequence of lines without their terminators.  Fields are  *)
(* separated by commas; quoted fields are not modelled, so no line holds a *)
(* quote character.  A Python dict is a function from keys to values; a    *)
(* key is a text or None, a value is a text, None or a list of texts.      *)
(***************************************************************************)
BOM == "\\ufeff"
Comma == ","

KeyStr(t) == [k |-> "str", s |-> t]
KeyNone == [k |-> "none", s |-> <<>>]
ValStr(t) == [k |-> "str", s |-> t, items |-> <<>>]
ValNone == [k |-> "none", s |-> <<>>, items |-> <<>>]
ValList(items) == [k |-> "list", s |-> <<>>, items |-> items]

\* Variant: encoding='utf-8', which keeps the byte-order mark.
decode_utf_8(lines) == lines

\* open(..., encoding='utf-8-sig') (line 32): a byte-order mark at the very
\* start of the file is dropped.
decode_utf_8_sig(lines) ==
    IF lines # <<>> /\ lines[1] # <<>> /\ lines[1][1] = BOM
    THEN [lines EXCEPT ![1] = Tail(lines[1])]
    ELSE lines

RECURSIVE split(_)
\* The fields of a line that is not empty.
split(line) ==
    IF \A k \in 1..Len(line) : line[k] # Comma THEN <<line>>
    ELSE LET c == CHOOSE k \in 1..Len(line) :
                    line[k] = Comma /\ \A j \in 1..(k - 1) : line[j] # Comma
         IN  <<SubSeq(line, 1, c - 1)>> \o split(SubSeq(line, c + 1, Len(line)))

\* csv.reader: the row of one line; an empty line gives the empty row.
reader_row(line) == IF line = <<>> THEN <<>> ELSE split(line)

\* csv.DictReader.__next__: the dict of a row that is not empty.  Fields
\* are zipped with the names, a later duplicate name overwriting an earlier
\* one; surplus fields go under the key None (restkey), and names without a
\* field get None (restval).
DictRow(fieldnames, row) ==
    LET lf == Len(fieldnames)
        lr == Len(row)
        keys == {KeyStr(fieldnames[c]) : c \in 1..lf}
                \cup (IF lf < lr THEN {KeyNone} ELSE {})
    IN  [key \in keys |->
            IF key = KeyNone THEN ValList(SubSeq(row, lf + 1, lr))
            ELSE LET last == CHOOSE c \in 1..lf :
                        /\ fieldnames[c] = key.s
                        /\ \A e \in (c + 1)..lf : fieldnames[e] # key.s
                 IN  IF last <= lr THEN ValStr(row[last]) ELSE ValNone]

RECURSIVE DictRows(_, _)
\* The dicts of the lines after the first; rows that are empty are skipped.
DictRows(fieldnames, lines) ==
    IF lines = <<>> THEN <<>>
    ELSE LET row == reader_row(Head(lines))
         IN  (IF row = <<>> THEN <<>> ELSE <<DictRow(fieldnames, row)>>)
             \o DictRows(fieldnames, Tail(lines))

\* list(csv.DictReader(csv_file)) (lines 33-35): the first row, empty or
\* not, gives the field names.
DictReader(lines) ==
    IF lines = <<>> THEN <<>>
    ELSE DictRows(reader_row(lines[1]), Tail(lines))

Null == <<"n", "u", "l", "l">>

\* json.dump of one dict (line 46): the key None is written as "null".
json_object(d) ==
    [name \in {IF key = KeyNone THEN Null ELSE key.s : key \in DOMAIN d} |->
        IF name = Null /\ KeyNone \in DOMAIN d THEN d[KeyNone] ELSE d[KeyStr(name)]]

\* json.dump(data_list, ...) (line 46).
json_dump(list) == [n \in 1..Len(list) |-> json_object(list[n])]

\* The files csv_to_json is run on.
HeaderLines ==
    { <<"a">>, <<"a", Comma, "b">>, <<BOM, "a", Comma, "b">>,
      <<"a", Comma, "a">>, <<>> }
LineChars == {"x", Comma}
CsvFiles ==
    {<<>>} \cup {<<h>> \o rows : h \in HeaderLines,
                                 rows \in SeqsUpTo(SeqsUpTo(LineChars, MaxLineLen), MaxRows)}

\* The state main() starts csv_to_json in, with add_imdb_ids_to_movies not
\* in play.
CsvInit ==
    /\ csv_exists \in BOOLEAN
    /\ csv_file \in (IF csv_exists THEN CsvFiles ELSE {<<>>})
    /\ cpc = "start"
    /\ data_list = <<>>
    /\ json_file = <<>>
    /\ exit_code = <<>>
    /\ data = <<>>
    /\ i = 1
    /\ pc = "idle"
    /\ imdb_id = None
    /\ tvtime_failed = FALSE
    /\ watched_movies = <<>>
    /\ missing_imdb_ids = <<>>
    /\ fallback_obtained = <<>>
    /\ pbar = 0
    /\ stdout = <<>>
    /\ output_file = <<>>
    /\ requests = <<>>
    /\ origin = NoOrigin

\* Lines 36-38: the file does not exist.
CsvMissing ==
    /\ cpc = "start"
    /\ ~csv_exists
    /\ exit_code' = <<1>>
    /\ cpc' = "exited"
    /\ UNCHANGED <<csv_exists, csv_file, data_list, json_file>>
    /\ UNCHANGED resolver_vars

\* Lines 30-35: the rows are read into data_list.
ReadCsv ==
    /\ cpc = "start"
    /\ csv_exists
    /\ data_list' = DictReader(decode_utf_8_sig(csv_file))
    /\ cpc' = "read"
    /\ UNCHANGED <<csv_exists, csv_file, json_file, exit_code>>
    /\ UNCHANGED resolver_vars

\* Lines 44-47: data_list is written as the JSON document.
WriteJson ==
    /\ cpc = "read"
    /\ json_file' = Append(json_file, json_dump(data_list))
    /\ cpc' = "done"
    /\ UNCHANGED <<csv_exists, csv_file, data_list, exit_code>>
    /\ UNCHANGED resolver_vars

\* Lines 48-50: the JSON file cannot be written.
WriteJsonError ==
    /\ cpc = "read"
    /\ exit_code' = <<1>>
    /\ cpc' = "exited"
    /\ UNCHANGED <<csv_exists, csv_file, data_list, json_file>>
    /\ UNCHANGED resolver_vars

\* csv_to_json, one step.
CsvNext ==
    \/ CsvMissing
    \/ ReadCsv
    \/ WriteJson
    \/ WriteJsonError

CsvSpec == CsvInit /\ [][CsvNext]_vars

(***************************************************************************)
(* Properties.  What a property says about an entry is read off the input  *)
(* list and the history of requests, independently of the operators the    *)
(* actions use.                                                            *)
(***************************************************************************)
NumEntries == Len(data)

FieldOf(k, key, default) ==
    IF key \in DOMAIN data[k] THEN data[k][key] ELSE default
UuidOf(k) == FieldOf(k, "uuid", <<"">>)[1]
TitleOf(k) == FieldOf(k, "movie_name", <<"(no title)">>)[1]
CreatedAtOf(k) == FieldOf(k, "created_at", <<>>)

\* The entry passes both filters: category exactly "movie", status beginning
\* with "watch-".
PassesFilters(k) ==
    /\ FieldOf(k, "entity_type", <<"">>) = <<"movie">>
    /\ LET status == FieldOf(k, "type-uuid-n", <<>>)
       IN  Len(status) >= 6 /\ SubSeq(status, 1, 6) = <<"w", "a", "t", "c", "h", "-">>

RequestsOf(stage, k) ==
    {j \in 1..Len(requests) : requests[j].stage = stage /\ requests[j].entry = k}
ResponseOf(stage, k) ==
    requests[CHOOSE j \in RequestsOf(stage, k) : TRUE].response

Positions(body, kinds) == {p \in 1..Len(body) : body[p].kind \in kinds}
FirstId(body, kinds) ==
    body[CHOOSE p \in Positions(body, kinds) :
            \A q \in Positions(body, kinds) : p <= q].id

Found(response, kinds) ==
    /\ response.error = None
    /\ response.status_code = 200
    /\ Positions(response.text, kinds) # {}

EmbeddedKinds == {"esc", "plain"}
PathKinds == {"path"}

PrimaryDone(k) == RequestsOf("primary", k) # {}
FallbackDone(k) == RequestsOf("fallback", k) # {}
PrimarySucceeded(k) == PrimaryDone(k) /\ Found(ResponseOf("primary", k), EmbeddedKinds)
\* The three ways the primary request fails: an exception, a status other
\* than 200, a body without the embedded identifier.
PrimaryFailed(k) ==
    /\ PrimaryDone(k)
    /\ LET r == ResponseOf("primary", k)
       IN  \/ r.error # None
           \/ r.error = None /\ r.status_code # 200
           \/ r.error = None /\ r.status_code = 200
              /\ Positions(r.text, EmbeddedKinds) = {}
FallbackSucceeded(k) == FallbackDone(k) /\ Found(ResponseOf("fallback", k), PathKinds)
FallbackFailed(k) == FallbackDone(k) /\ ~Found(ResponseOf("fallback", k), PathKinds)

ResolvedByPrimary(k) == PassesFilters(k) /\ PrimarySucceeded(k)
ResolvedByFallback(k) == PassesFilters(k) /\ PrimaryFailed(k) /\ FallbackSucceeded(k)
Unresolved(k) == PassesFilters(k) /\ PrimaryFailed(k) /\ FallbackFailed(k)
ResolvedId(k) ==
    IF PrimarySucceeded(k) THEN FirstId(ResponseOf("primary", k).text, EmbeddedKinds)
    ELSE FirstId(ResponseOf("fallback", k).text, PathKinds)

\* The iteration of entry k has ended normally / has raised.
Completed(k) == k < i
AbortedAt(k) == pc = "aborted" /\ i = k
RunEnded == pc \in {"done", "aborted"}

PlacesIn(list, k) == {p \in 1..Len(list) : list[p] = k}
In(list, k) == PlacesIn(list, k) # {}
Increasing(list) == \A p, q \in 1..Len(list) : p < q => list[p] < list[q]

\* What the timestamps of the input lists are for Python: strptime accepts
\* the padded and the unpadded one and strftime gives the same text for
\* both; it rejects the other two.
T_normalized == <<"2", "0", "2", "0", "-", "0", "9", "-", "2", "1", "T",
                  "0", "2", ":", "1", "7", ":", "2", "0", "Z">>
AcceptedByStrptime == {T_padded, T_unpadded}
ExactFormat == {T_padded}

Entries1 == 1..NumEntries

\* The final output document, once written.
Document == output_file[Len(output_file)]

\* C1 (as stated): whenever the primary request of a filtered-in record
\* failed and its fallback found an identifier, the record is in the final
\* output document with that identifier (and in the fallback list, and not
\* in the unresolved list) once the run has ended.
C1_AsStated ==
    \A k \in Entries1 :
        (ResolvedByFallback(k) /\ RunEnded) =>
            /\ output_file # <<>>
            /\ \E p \in PlacesIn(origin.watched, k) :
                    Document[p].id = ResolvedId(k)
            /\ In(origin.fallback, k)
            /\ ~In(origin.missing, k)

\* C1 (amended): a failed primary request (exception, non-200, or 200 without
\* the embedded identifier) is always followed by one search for the record's
\* title; when that search finds a path identifier the record is put in the
\* fallback list exactly once with the first such identifier and its uuid
\* and never in the unresolved list; it is put in the output list with that
\* identifier when its iteration completes, and is in the output document
\* whenever the document is written.
C1_FallbackResolves ==
    \A k \in Entries1 :
        /\ (PassesFilters(k) /\ PrimaryFailed(k) /\ ~(k = i /\ pc = "fallback")) =>
                \E j \in RequestsOf("fallback", k) :
                    /\ requests[j].template = "imdb.com/find?q="
                    /\ requests[j].arg = TitleOf(k)
        /\ ResolvedByFallback(k) =>
            /\ ~In(origin.missing, k)
            /\ (Completed(k) \/ AbortedAt(k)) =>
                /\ Cardinality(PlacesIn(origin.fallback, k)) = 1
                /\ \A p \in PlacesIn(origin.fallback, k) :
                        fallback_obtained[p] =
                            [movie_name |-> TitleOf(k),
                             imdb_id |-> FirstId(ResponseOf("fallback", k).text, PathKinds),
                             uuid |-> UuidOf(k)]
            /\ Completed(k) =>
                /\ Cardinality(PlacesIn(origin.watched, k)) = 1
                /\ \A p \in PlacesIn(origin.watched, k) :
                        watched_movies[p].id =
                            FirstId(ResponseOf("fallback", k).text, PathKinds)
            /\ pc = "done" =>
                \E p \in PlacesIn(origin.watched, k) :
                    Document[p].id = FirstId(ResponseOf("fallback", k).text, PathKinds)

\* A finished run in which a record whose page answered 404 was resolved by
\* a search whose body holds two path identifiers.
C1_Witness ==
    /\ pc = "done"
    /\ \E k \in Entries1 :
        /\ ResolvedByFallback(k)
        /\ ResponseOf("primary", k).status_code = 404
        /\ ResponseOf("fallback", k).text = Body_path
        /\ In(origin.watched, k)

\* C2: a filtered-in record whose page answers 200 with an embedded
\* identifier (either variant) is resolved to the first one matched, by the
\* primary path: no search is issued for it, and it is in neither the
\* fallback list nor the unresolved list.
C2_PrimaryResolves ==
    \A k \in Entries1 :
        ResolvedByPrimary(k) =>
            LET first == FirstId(ResponseOf("primary", k).text, EmbeddedKinds)
            IN  /\ RequestsOf("fallback", k) = {}
                /\ ~In(origin.fallback, k)
                /\ ~In(origin.missing, k)
                /\ k = i => (imdb_id = first /\ ~tvtime_failed /\ pc \in {"record", "aborted"})
                /\ \A p \in PlacesIn(origin.watched, k) : watched_movies[p].id = first
                /\ (Completed(k) /\ pc = "done") => In(origin.watched, k)

\* A record resolved from a body whose first embedded identifier is the
\* escaped variant, and one resolved from a body whose first is the plain
\* variant after a path identifier.
C2_Witness ==
    /\ \E k \in Entries1 :
        /\ ResolvedByPrimary(k) /\ Completed(k)
        /\ ResponseOf("primary", k).text = Body_id
    /\ \E k \in Entries1 :
        /\ ResolvedByPrimary(k) /\ Completed(k)
        /\ ResponseOf("primary", k).text = Body_mixed

\* C3: a filtered-in record for which the primary and the fallback both fail
\* is not in the output, is in the unresolved list exactly once with its
\* uuid, is not in the fallback list, and the run goes on to the next record.
C3_Unresolved ==
    \A k \in Entries1 :
        Unresolved(k) =>
            /\ ~AbortedAt(k)
            /\ ~In(origin.watched, k)
            /\ ~In(origin.fallback, k)
            /\ (k = i /\ pc = "record") => ENABLED Next
            /\ Completed(k) =>
                /\ Cardinality(PlacesIn(origin.missing, k)) = 1
                /\ \A p \in PlacesIn(origin.missing, k) :
                        missing_imdb_ids[p] =
                            [movie_name |-> TitleOf(k), uuid |-> UuidOf(k)]
            /\ pc = "done" => Len(Document) = Len(origin.watched)

\* An unresolved record with a malformed timestamp, followed by a record
\* that was processed after it.
C3_Witness ==
    \E k \in Entries1 :
        /\ Unresolved(k)
        /\ CreatedAtOf(k) = T_iso
        /\ k + 1 < i
        /\ PassesFilters(k + 1)

\* C4: a record whose category is not exactly "movie" or whose status does
\* not begin with "watch-" causes no request, primary or fallback, and is in
\* none of the output list, the unresolved list and the fallback list.
C4_Skipped ==
    \A k \in Entries1 :
        ~PassesFilters(k) =>
            /\ \A j \in 1..Len(requests) : requests[j].entry # k
            /\ ~In(origin.watched, k)
            /\ ~In(origin.missing, k)
            /\ ~In(origin.fallback, k)
            /\ ~AbortedAt(k)
            /\ (k = i /\ pc # "done") => pc = "loop"

\* A finished run over a non-movie and an unwatched movie.
C4_Witness ==
    /\ pc = "done"
    /\ \E k, l \in Entries1 :
        /\ FieldOf(k, "entity_type", <<"">>) # <<"movie">>
        /\ FieldOf(l, "entity_type", <<"">>) = <<"movie">>
        /\ FieldOf(l, "type-uuid-n", <<>>) = S_towatch

\* C5: the output list, the unresolved list and the fallback list are each in
\* input order, whichever records were skipped, unresolved or resolved by
\* either path; an output record holds exactly the identifier its own input
\* record was resolved to and that record's normalized timestamp; the
\* document written is the output list.
C5_InputOrder ==
    /\ Len(origin.watched) = Len(watched_movies)
    /\ Len(origin.missing) = Len(missing_imdb_ids)
    /\ Len(origin.fallback) = Len(fallback_obtained)
    /\ Increasing(origin.watched)
    /\ Increasing(origin.missing)
    /\ Increasing(origin.fallback)
    /\ \A p \in 1..Len(watched_movies) :
        LET k == origin.watched[p]
        IN  /\ k \in Entries1
            /\ ResolvedByPrimary(k) \/ ResolvedByFallback(k)
            /\ CreatedAtOf(k) \in AcceptedByStrptime
            /\ watched_movies[p] = [id |-> ResolvedId(k), watched_at |-> T_normalized]
    /\ \A p \in 1..Len(missing_imdb_ids) :
        missing_imdb_ids[p].uuid = UuidOf(origin.missing[p])
    /\ \A p \in 1..Len(fallback_obtained) :
        fallback_obtained[p].uuid = UuidOf(origin.fallback[p])
    /\ pc = "done" => Document = watched_movies

\* A document of two records with different identifiers, the first resolved
\* by the fallback and the second by the primary path.
C5_Witness ==
    /\ pc = "done"
    /\ Len(Document) = 2
    /\ Document[1].id # Document[2].id
    /\ ResolvedByFallback(origin.watched[1])
    /\ ResolvedByPrimary(origin.watched[2])

\* The steps left to a run: every step of the program lowers it.
Measure ==
    4 * (NumEntries + 2 - i)
    + (CASE pc = "loop" -> 3 [] pc = "fallback" -> 2 [] pc = "record" -> 1
         [] pc = "write" -> 2 [] OTHER -> 0)

\* C6 (as stated): for any input list and any network outcomes the run ends
\* normally, so it is never aborted.
C6_AsStated == pc # "aborted"

\* In every state: the only abort is the timestamp error of a resolved
\* record; a run that is neither done nor aborted can take a step; a run that
\* is done has processed every record exactly once and written the document.
C6_Inv ==
    /\ pc = "aborted" =>
        /\ i \in Entries1
        /\ ResolvedByPrimary(i) \/ ResolvedByFallback(i)
        /\ CreatedAtOf(i) \notin AcceptedByStrptime
    /\ pc \notin {"done", "aborted"} => ENABLED Next
    /\ pc = "done" =>
        /\ i = NumEntries + 1
        /\ pbar = NumEntries
        /\ output_file # <<>>
        /\ \A k \in Entries1 :
            Cardinality(PlacesIn(origin.watched, k))
            + Cardinality(PlacesIn(origin.missing, k))
                = IF PassesFilters(k) THEN 1 ELSE 0

\* C6 (amended): no exception of a request, no status other than 200 and no
\* pattern miss aborts the run: the only abort is the timestamp error of a
\* resolved record.  Short of that the run never stops before it is done,
\* every step brings it closer to the end, and when it is done every record
\* has been processed exactly once and the output document is written.
C6_NetworkFailuresNotFatal == []C6_Inv /\ [][Measure' < Measure]_vars

\* A finished run that met an exception, a 404 and a search without a match.
C6_Witness ==
    /\ pc = "done"
    /\ \E j \in 1..Len(requests) : requests[j].response.error # None
    /\ \E j \in 1..Len(requests) : requests[j].response.status_code = 404
    /\ \E k \in Entries1 :
        Unresolved(k) /\ ResponseOf("fallback", k).text = Body_id

C9_AsStated ==
    \A k \in Entries1 :
        (PassesFilters(k) /\ CreatedAtOf(k) \notin ExactFormat) => ~Completed(k)

\* C9 (amended): a filtered-in record that is resolved to an identifier and
\* whose created_at strptime rejects aborts the run in its own iteration: no
\* later record is processed and nothing is written.  The run aborts in no
\* other case, and a created_at that strptime accepts is normalized to
\* YYYY-MM-DDTHH:MM:SSZ.
C9_TimestampFatal ==
    /\ \A k \in Entries1 :
        ((ResolvedByPrimary(k) \/ ResolvedByFallback(k))
         /\ CreatedAtOf(k) \notin AcceptedByStrptime) =>
            /\ k = i
            /\ pc \in {"record", "aborted"}
            /\ pc = "record" => (ENABLED Next /\ ~ENABLED RecordResolved)
            /\ ~In(origin.watched, k)
            /\ pbar = k - 1
            /\ output_file = <<>>
            /\ \A j \in 1..Len(requests) : requests[j].entry <= k
    /\ pc = "aborted" =>
        /\ ResolvedByPrimary(i) \/ ResolvedByFallback(i)
        /\ CreatedAtOf(i) \notin AcceptedByStrptime
    /\ \A p \in 1..Len(watched_movies) :
        /\ CreatedAtOf(origin.watched[p]) \in AcceptedByStrptime
        /\ watched_movies[p].watched_at = T_normalized

\* The run aborted on its first record with a filtered-in record behind it.
C9_Witness ==
    /\ pc = "aborted"
    /\ i = 1
    /\ NumEntries = 2
    /\ PassesFilters(2)
    /\ CreatedAtOf(1) = T_iso

\* Each diagnostics list that is not empty has been printed.
DiagnosticsPrinted ==
    /\ missing_imdb_ids # <<>> =>
        \E n \in 1..Len(stdout) :
            stdout[n] = [section |-> "missing", items |-> missing_imdb_ids]
    /\ fallback_obtained # <<>> =>
        \E n \in 1..Len(stdout) :
            stdout[n] = [section |-> "fallback", items |-> fallback_obtained]

\* In every state: at most one document has been written, and one has been
\* written exactly when the run is done.
C10_Inv ==
    /\ Len(output_file) <= 1
    /\ (output_file # <<>>) <=> (pc = "done")
    /\ pc = "aborted" => output_file = <<>>
    /\ pc = "done" =>
        /\ i = NumEntries + 1
        /\ Document = watched_movies
        /\ DiagnosticsPrinted
        /\ stdout[Len(stdout)].section = "added"

\* C10: the output document is written once, after every record has been
\* processed and after the diagnostics have been printed; a run that aborts
\* writes no document, whatever the output list already holds.
C10_AllOrNothing ==
    /\ []C10_Inv
    /\ [][output_file' # output_file =>
            /\ output_file = <<>>
            /\ i = NumEntries + 1
            /\ pbar = NumEntries
            /\ DiagnosticsPrinted
            /\ output_file' = <<watched_movies>>]_vars

\* An aborted run with a record already in the output list.
C10_Witness ==
    /\ pc = "aborted"
    /\ watched_movies # <<>>
    /\ output_file = <<>>

(***************************************************************************)
(* Properties of csv_to_json.  The cells of a line are read off the        *)
(* positions of its commas.                                                *)
(***************************************************************************)
\* The text of the file: its lines without the byte-order mark.
TextLine(n) ==
    IF n = 1 /\ csv_file[1] # <<>> /\ csv_file[1][1] = BOM
    THEN SubSeq(csv_file[1], 2, Len(csv_file[1]))
    ELSE csv_file[n]

Commas(line) == {p \in 1..Len(line) : line[p] = Comma}
NumCells(line) == Cardinality(Commas(line)) + 1
\* The c-th cell: what lies between the (c-1)-th and the c-th comma.
Cell(line, c) ==
    LET before == {p \in Commas(line) : Cardinality({q \in Commas(line) : q < p}) = c - 2}
        after == {p \in Commas(line) : Cardinality({q \in Commas(line) : q < p}) = c - 1}
        from == IF before = {} THEN 1 ELSE (CHOOSE p \in before : TRUE) + 1
        to == IF after = {} THEN Len(line) ELSE (CHOOSE p \in after : TRUE) - 1
    IN  SubSeq(line, from, to)

\* The data rows: the lines after the header that are not blank.
DataLines == {n \in 2..Len(csv_file) : csv_file[n] # <<>>}
\* The line of the r-th data row.
DataLine(r) ==
    CHOOSE n \in DataLines : Cardinality({m \in DataLines : m < n}) = r - 1

\* Valid tabular input: a header row that is not blank, with distinct names,
\* and data rows with as many cells as the header.
ValidTable ==
    /\ csv_exists
    /\ csv_file # <<>>
    /\ TextLine(1) # <<>>
    /\ \A c, e \in 1..NumCells(TextLine(1)) :
        c # e => Cell(TextLine(1), c) # Cell(TextLine(1), e)
    /\ \A n \in DataLines : NumCells(csv_file[n]) = NumCells(TextLine(1))

\* The intermediate document, once written.
Intermediate == json_file[Len(json_file)]

====
